---- MODULE Spec2Model ----
(***************************************************************************)
(* A model of the some! macro of option-extra (src/macros.rs).             *)
(*                                                                         *)
(* The macro has three rules.  An invocation is the token text handed to   *)
(* the macro; the macro matcher selects the first rule whose matcher       *)
(* accepts the tokens, the rule's transcriber yields a two-arm match       *)
(* expression, the compiler checks the first arm's pattern against the     *)
(* declaration of the enum, and at run time the match is evaluated on the  *)
(* scrutinee.                                                              *)
(***************************************************************************)
EXTENDS Integers, Sequences, FiniteSets, TLC

VARIABLES pc, inv, x, result, v, a_only

vars == <<pc, inv, x, result, v, a_only>>

\* Largest number of fields of a variant, and of names in an invocation.
MaxArity == 2
\* Longest vector handed to filter_map.
MaxLen == 2

\* Field values.  The expansion moves them and never inspects them, so two
\* distinguishable values are enough to tell the fields of a variant apart.
Values == {0, 1}

\* Identifiers the caller can write between the braces.  A struct variant
\* with k fields declares the fields 1..k, in this order.  None of them
\* names a constant, static or unit item in scope at the call site, so in
\* a pattern each is a fresh binding.
Idents == 1 .. MaxArity

\* The binding `inner` of rule 1.  It is introduced by the macro, so by
\* hygiene it is none of the caller's identifiers.
Inner == 0

SeqsUpTo(S, n) == UNION {[1 .. k -> S] : k \in 0 .. n}

----------------------------------------------------------------------------
(* The enum: a unit variant and, for every arity, a tuple and a struct     *)
(* variant (the shapes of the doc examples: Other, Int(i32), A(i32, bool), *)
(* Struct {id, name}).                                                     *)

Variants ==
    {[kind |-> "unit", arity |-> 0]}
        \cup {[kind |-> k, arity |-> n] : k \in {"tuple", "struct"}, n \in 1 .. MaxArity}

EnumValues ==
    UNION {{[variant |-> p, fields |-> f] : f \in [1 .. p.arity -> Values]} : p \in Variants}

----------------------------------------------------------------------------
(* Values of the result type.                                              *)

\* A payload is a bare value or a tuple; (a) is a, (a,) would be a tuple.
Bare(val) == [tuple |-> FALSE, elems |-> <<val>>]
Tuple(vals) == [tuple |-> TRUE, elems |-> vals]
NoVal == [tuple |-> FALSE, elems |-> <<>>]

SomeOf(payload) == [tag |-> "Some", val |-> payload]
None == [tag |-> "None", val |-> NoVal]
CompileError == [tag |-> "CompileError", val |-> NoVal]
NoArm == [tag |-> "NoArm", val |-> NoVal]
Pending == [tag |-> "Pending", val |-> NoVal]

----------------------------------------------------------------------------
(* Invocations: `if let P = x` (no braces) or `if let P { names } = x`,    *)
(* every name written with or without a trailing colon.                    *)

NameTokens == [id : Idents, colon : BOOLEAN]

Invocations ==
    {[p |-> p, braces |-> FALSE, names |-> <<>>] : p \in Variants}
        \cup {[p |-> p, braces |-> TRUE, names |-> n] :
                p \in Variants, n \in SeqsUpTo(NameTokens, MaxArity)}

NamesOf(i) == [k \in 1 .. Len(i.names) |-> i.names[k].id]

\* Mutant of MatchRule: rule 2 takes the names with or without colons.
MatchRule_ColonsOptional(i) ==
    IF ~i.braces THEN 1
    ELSE IF Len(i.names) >= 1 THEN 2
    ELSE 0

\* The rule whose matcher accepts the tokens; 0 when none does.
MatchRule(i) ==
    IF ~i.braces THEN 1
    ELSE IF Len(i.names) >= 1 /\ \A k \in 1 .. Len(i.names) : ~i.names[k].colon THEN 2
    ELSE IF Len(i.names) >= 1 /\ \A k \in 1 .. Len(i.names) : i.names[k].colon THEN 3
    ELSE 0

----------------------------------------------------------------------------
(* The transcribers.  A match is a sequence of arms; an arm is a pattern   *)
(* and the expression it returns.                                          *)

Wildcard == [wild |-> TRUE, path |-> [kind |-> "unit", arity |-> 0],
             shape |-> "wild", binds |-> <<>>]

PathPattern(p, shape, binds) ==
    [wild |-> FALSE, path |-> p, shape |-> shape, binds |-> binds]

\* ::std::option::Option::Some(args) with args parenthesised or not.
SomeExpr(paren, args) == [some |-> TRUE, paren |-> paren, args |-> args]
NoneExpr == [some |-> FALSE, paren |-> FALSE, args |-> <<>>]

WildcardArm == [pat |-> Wildcard, ret |-> NoneExpr]

\* Mutant of Rule1: the arms in the wrong order.
Rule1_WildcardFirst(i) ==
    << WildcardArm,
       [pat |-> PathPattern(i.p, "tuple", <<Inner>>), ret |-> SomeExpr(FALSE, <<Inner>>)] >>

Rule1(i) ==
    << [pat |-> PathPattern(i.p, "tuple", <<Inner>>), ret |-> SomeExpr(FALSE, <<Inner>>)],
       WildcardArm >>

Reverse(s) == [k \in 1 .. Len(s) |-> s[Len(s) + 1 - k]]

\* Mutant of Rule2: the tuple is built from the names in reverse.
Rule2_Reversed(i) ==
    << [pat |-> PathPattern(i.p, "tuple", NamesOf(i)),
        ret |-> SomeExpr(TRUE, Reverse(NamesOf(i)))],
       WildcardArm >>

Rule2(i) ==
    << [pat |-> PathPattern(i.p, "tuple", NamesOf(i)), ret |-> SomeExpr(TRUE, NamesOf(i))],
       WildcardArm >>

\* Mutant of Rule3: the tuple is built in the order of the declaration.
Rule3_DeclOrder(i) ==
    << [pat |-> PathPattern(i.p, "struct", NamesOf(i)),
        ret |-> SomeExpr(TRUE, [k \in 1 .. Len(i.names) |-> k])],
       WildcardArm >>

Rule3(i) ==
    << [pat |-> PathPattern(i.p, "struct", NamesOf(i)), ret |-> SomeExpr(TRUE, NamesOf(i))],
       WildcardArm >>

Expand(i) ==
    CASE MatchRule(i) = 1 -> Rule1(i)
      [] MatchRule(i) = 2 -> Rule2(i)
      [] MatchRule(i) = 3 -> Rule3(i)
      [] OTHER -> << >>

----------------------------------------------------------------------------
(* Compile-time check of a pattern against the enum's declaration.         *)

Distinct(s) == \A j, k \in 1 .. Len(s) : j # k => s[j] # s[k]

\* P(b1, ..., bk): P is a tuple variant of k fields, no binding twice.
\* P {n1, ..., nk}: P is a struct variant, every name is a field of it, no
\* field is named twice and none is left out.
PatternChecks(pat) ==
    CASE pat.wild -> TRUE
      [] pat.shape = "tuple" ->
            /\ pat.path.kind = "tuple"
            /\ Len(pat.binds) = pat.path.arity
            /\ Distinct(pat.binds)
      [] pat.shape = "struct" ->
            /\ pat.path.kind = "struct"
            /\ \A k \in 1 .. Len(pat.binds) : pat.binds[k] \in 1 .. pat.path.arity
            /\ Distinct(pat.binds)
            /\ Len(pat.binds) = pat.path.arity
      [] OTHER -> FALSE

Accepted(i) ==
    /\ MatchRule(i) # 0
    /\ \A k \in 1 .. Len(Expand(i)) : PatternChecks(Expand(i)[k].pat)

----------------------------------------------------------------------------
(* Run-time evaluation of the match.                                       *)

Matches(pat, e) == pat.wild \/ e.variant = pat.path

\* The value bound to name n when pat matched e.
Bound(pat, e, n) ==
    IF pat.shape = "struct" THEN e.fields[n]
    ELSE e.fields[CHOOSE k \in 1 .. Len(pat.binds) : pat.binds[k] = n]

\* Mutant of ParenList: a one-element list makes a one-element tuple.
ParenList_AlwaysTuple(vals) == Tuple(vals)

\* ( a ) is the expression a; ( a, b, ... ) is a tuple.
ParenList(vals) == IF Len(vals) = 1 THEN Bare(vals[1]) ELSE Tuple(vals)

EvalArm(arm, e) ==
    IF ~arm.ret.some THEN None
    ELSE LET vals == [k \in 1 .. Len(arm.ret.args) |-> Bound(arm.pat, e, arm.ret.args[k])]
         IN  SomeOf(IF arm.ret.paren THEN ParenList(vals) ELSE Bare(vals[1]))

\* The first arm whose pattern matches decides.
MatchExpr(arms, e) ==
    IF \E k \in 1 .. Len(arms) : Matches(arms[k].pat, e)
    THEN LET first == CHOOSE k \in 1 .. Len(arms) :
                            /\ Matches(arms[k].pat, e)
                            /\ \A j \in 1 .. k - 1 : ~Matches(arms[j].pat, e)
         IN  EvalArm(arms[first], e)
    ELSE NoArm

\* some!(<invocation i> = e)
some(i, e) == IF Accepted(i) THEN MatchExpr(Expand(i), e) ELSE CompileError

\* Mutant of FilterMap: the outputs are collected in reverse.
RECURSIVE FilterMap_Reversed(_, _)
FilterMap_Reversed(arms, vec) ==
    IF vec = << >> THEN << >>
    ELSE LET r == MatchExpr(arms, Head(vec))
         IN  IF r.tag = "Some" THEN FilterMap_Reversed(arms, Tail(vec)) \o <<r.val>>
             ELSE FilterMap_Reversed(arms, Tail(vec))

\* vec.into_iter().filter_map(|el| match el { arms }).collect()
RECURSIVE FilterMap(_, _)
FilterMap(arms, vec) ==
    IF vec = << >> THEN << >>
    ELSE LET r == MatchExpr(arms, Head(vec))
         IN  IF r.tag = "Some" THEN <<r.val>> \o FilterMap(arms, Tail(vec))
             ELSE FilterMap(arms, Tail(vec))

----------------------------------------------------------------------------
(* The program: an invocation is written, compiled, and - when accepted -  *)
(* evaluated on a value or used as the closure of filter_map.              *)

Init ==
    /\ pc = "written"
    /\ inv \in Invocations
    /\ x = [variant |-> [kind |-> "unit", arity |-> 0], fields |-> << >>]
    /\ result = Pending
    /\ v = << >>
    /\ a_only = << >>

Compile ==
    /\ pc = "written"
    /\ pc' = IF Accepted(inv) THEN "compiled" ELSE "rejected"
    /\ result' = IF Accepted(inv) THEN Pending ELSE CompileError
    /\ UNCHANGED <<inv, x, v, a_only>>

Run(e) ==
    /\ pc = "compiled"
    /\ x' = e
    /\ result' = MatchExpr(Expand(inv), e)
    /\ pc' = "done"
    /\ UNCHANGED <<inv, v, a_only>>

Collect(vec) ==
    /\ pc = "compiled"
    /\ v' = vec
    /\ a_only' = FilterMap(Expand(inv), vec)
    /\ pc' = "collected"
    /\ UNCHANGED <<inv, x, result>>

\* A program that evaluates the invocation on one value.
Next ==
    \/ Compile
    \/ pc = "compiled" /\ \E e \in EnumValues : Run(e)

Spec == Init /\ [][Next]_vars

\* A program that uses the invocation as the closure of filter_map.
NextFilter ==
    \/ Compile
    \/ pc = "compiled" /\ \E vec \in SeqsUpTo(EnumValues, MaxLen) : Collect(vec)

SpecFilter == Init /\ [][NextFilter]_vars

----------------------------------------------------------------------------
(* Vocabulary of the properties: the three written forms, and the payload  *)
(* each form selects from a value of the selected variant.                 *)

NoColons(i) == \A k \in 1 .. Len(i.names) : ~i.names[k].colon
AllColons(i) == \A k \in 1 .. Len(i.names) : i.names[k].colon

ShortForm(i) == ~i.braces
TupleForm(i) == i.braces /\ Len(i.names) >= 1 /\ NoColons(i)
StructForm(i) == i.braces /\ Len(i.names) >= 1 /\ AllColons(i)

OneFieldTuple == [kind |-> "tuple", arity |-> 1]

\* The values of the named fields, in the order the names are written.
NamedFields(i, e) == [k \in 1 .. Len(i.names) |-> e.fields[i.names[k].id]]

PayloadOf(i, e) ==
    CASE ShortForm(i) -> Bare(e.fields[1])
      [] TupleForm(i) -> IF Len(i.names) = 1 THEN Bare(e.fields[1]) ELSE Tuple(e.fields)
      [] StructForm(i) ->
            IF Len(i.names) = 1 THEN Bare(NamedFields(i, e)[1]) ELSE Tuple(NamedFields(i, e))

\* The form, or the number of names, does not fit the selected variant.
Mismatch(i) ==
    \/ ShortForm(i) /\ i.p # OneFieldTuple
    \/ TupleForm(i) /\ ~(i.p.kind = "tuple" /\ Len(i.names) = i.p.arity)
    \/ StructForm(i) /\ ~(i.p.kind = "struct" /\ Len(i.names) = i.p.arity)

----------------------------------------------------------------------------

\* C1: the short form on a one-field tuple variant P yields Some(v) when the
\* value is P carrying v, and None when the value is any other variant.
C1_ShortForm ==
    (pc = "done" /\ ShortForm(inv) /\ inv.p = OneFieldTuple)
        => result = IF x.variant = inv.p THEN SomeOf(Bare(x.fields[1])) ELSE None

C1_Witness ==
    /\ pc = "done" /\ ShortForm(inv) /\ inv.p = OneFieldTuple
    /\ x.variant = inv.p /\ result = SomeOf(Bare(1))

\* C2: the tuple form with k >= 2 names on a tuple variant P of k fields
\* yields Some of the tuple of the fields in positional order when the value
\* is P, and None when it is any other variant.
C2_TupleForm ==
    (pc = "done" /\ TupleForm(inv) /\ Len(inv.names) >= 2 /\ inv.p.kind = "tuple")
        => result = IF x.variant = inv.p THEN SomeOf(Tuple(x.fields)) ELSE None

C2_Witness ==
    /\ pc = "done" /\ TupleForm(inv) /\ Len(inv.names) >= 2
    /\ x.variant = inv.p /\ x.fields[1] # x.fields[2]
    /\ result = SomeOf(Tuple(x.fields))

\* C3 as stated: the struct form on a struct variant P yields Some of the
\* tuple of the named fields' values, in the order the names are written,
\* when the value is P, and None when it is any other variant.
C3_AlwaysTuple ==
    (pc = "done" /\ StructForm(inv) /\ inv.p.kind = "struct")
        => result = IF x.variant = inv.p THEN SomeOf(Tuple(NamedFields(inv, x))) ELSE None

\* C3 amended: the struct form yields Some of the tuple of the named fields'
\* values in the order written when two or more names are written, Some of
\* the bare field value when exactly one name is written, and None when the
\* value is any other variant.
C3_StructForm ==
    (pc = "done" /\ StructForm(inv) /\ inv.p.kind = "struct")
        => result = IF x.variant # inv.p THEN None
                    ELSE IF Len(inv.names) >= 2 THEN SomeOf(Tuple(NamedFields(inv, x)))
                    ELSE SomeOf(Bare(NamedFields(inv, x)[1]))

C3_Witness ==
    /\ pc = "done" /\ StructForm(inv) /\ Len(inv.names) >= 2
    /\ x.variant = inv.p
    /\ inv.names[1].id > inv.names[2].id
    /\ NamedFields(inv, x) # x.fields
    /\ result = SomeOf(Tuple(NamedFields(inv, x)))

\* C4: filter_map with some! as its closure collects exactly the payloads of
\* the elements that are the selected variant, one per such element, in the
\* order of the input; the other elements contribute nothing.
C4_FilterMap ==
    pc = "collected"
        => LET Selected(e) == e.variant = inv.p
               sel == SelectSeq(v, Selected)
           IN  a_only = [k \in 1 .. Len(sel) |-> PayloadOf(inv, sel[k])]

C4_Witness ==
    /\ pc = "collected"
    /\ Len(v) = 2 /\ Len(a_only) = 2
    /\ a_only[1] # a_only[2]
    /\ a_only[1] = PayloadOf(inv, v[1])

\* C5: for every variant of the enum, whatever its shape, some invocation
\* selecting it is accepted and yields Some exactly on the values that are
\* that variant and None on all others.
C5_AnyVariant ==
    \E j \in Invocations :
        /\ j.p = inv.p
        /\ Accepted(j)
        /\ \A e \in EnumValues :
              some(j, e).tag = IF e.variant = j.p THEN "Some" ELSE "None"

\* C6: an accepted invocation evaluates, on every value, to exactly Some(..)
\* or None - no value is left without an arm; an invocation whose form or
\* number of names does not fit the selected variant is rejected at compile
\* time and never evaluated.
C6_NoRuntimeFailure ==
    /\ pc = "done" => result.tag \in {"Some", "None"}
    /\ pc = "compiled" => \A e \in EnumValues : some(inv, e).tag \in {"Some", "None"}
    /\ Mismatch(inv) => pc \in {"written", "rejected"}
    /\ pc = "rejected" => result = CompileError

C6_Witness ==
    /\ pc = "rejected" /\ result = CompileError
    /\ TupleForm(inv) /\ inv.p.kind = "tuple" /\ Len(inv.names) # inv.p.arity

\* C7: braces around exactly one name yield the bare field value: on a
\* one-field tuple variant the result equals that of the short form, and on
\* a one-field struct variant it is Some(value of the field).
C7_OneName ==
    (pc = "done" /\ inv.braces /\ Len(inv.names) = 1)
        => /\ TupleForm(inv)
                => result = some([p |-> inv.p, braces |-> FALSE, names |-> << >>], x)
           /\ (StructForm(inv) /\ x.variant = inv.p)
                => result = SomeOf(Bare(x.fields[inv.names[1].id]))

C7_Witness ==
    /\ pc = "done" /\ TupleForm(inv) /\ Len(inv.names) = 1
    /\ x.variant = inv.p
    /\ result = SomeOf(Bare(x.fields[1]))

====
